---- MODULE Spec2Model ----
(***************************************************************************)
(* Chat pipeline of the AI tutor backend: ChatService (conversation cache, *)
(* process_message, end_session), the GeminiService extraction steps       *)
(* (emotion, understanding level, study suggestions) and the Firestore     *)
(* conversation store they write to.                                       *)
(*                                                                         *)
(* Texts that the code parses are sequences of one-character strings, so   *)
(* that strip / lower / substring / regex scans are computed as the code   *)
(* computes them.  The one non-ASCII character of the source, the bullet   *)
(* U+2022, is written "bullet" and stands for that single character.       *)
(***************************************************************************)
EXTENDS Integers, Sequences, FiniteSets, TLC

VARIABLES convs, active_sessions, calls, faults, probe, now

vars == <<convs, active_sessions, calls, faults, probe, now>>

(***************************************************************************)
(* Bounds of the model                                                     *)
(***************************************************************************)
MaxTurns == 7
MaxFaults == 2
MaxLevelLen == 4
MaxFrags == 2
MaxLines == 2
MaxProgress == 6
MaxHistory == 11
MaxClock == 1
MaxStored == 11
MaxLookupTurns == 4

(***************************************************************************)
(* Python values                                                           *)
(***************************************************************************)
\* None for Optional[EmotionState] and Optional[str]
None == "None"
\* Optional[int]: <<>> is None, <<n>> is the integer n
NoLevel == <<>>
SomeLevel(n) == <<n>>

(***************************************************************************)
(* str helpers, as CPython computes them                                   *)
(***************************************************************************)
Whitespace == {" ", "\n", "\t"}

Digits == {"0", "1", "2", "3", "4", "5", "6", "7", "8", "9"}

DigitValue(c) ==
  CASE c = "0" -> 0 [] c = "1" -> 1 [] c = "2" -> 2 [] c = "3" -> 3
    [] c = "4" -> 4 [] c = "5" -> 5 [] c = "6" -> 6 [] c = "7" -> 7
    [] c = "8" -> 8 [] c = "9" -> 9

RECURSIVE LStripSet(_, _)
LStripSet(s, chars) ==
  IF s # <<>> /\ Head(s) \in chars THEN LStripSet(Tail(s), chars) ELSE s

RECURSIVE RStripSet(_, _)
RStripSet(s, chars) ==
  IF s # <<>> /\ s[Len(s)] \in chars
    THEN RStripSet(SubSeq(s, 1, Len(s) - 1), chars)
    ELSE s

\* str.strip()
Strip(s) == RStripSet(LStripSet(s, Whitespace), Whitespace)

LowerChar(c) ==
  CASE c = "A" -> "a" [] c = "B" -> "b" [] c = "C" -> "c" [] c = "D" -> "d"
    [] c = "E" -> "e" [] c = "F" -> "f" [] c = "G" -> "g" [] c = "H" -> "h"
    [] c = "I" -> "i" [] c = "J" -> "j" [] c = "K" -> "k" [] c = "L" -> "l"
    [] c = "M" -> "m" [] c = "N" -> "n" [] c = "O" -> "o" [] c = "P" -> "p"
    [] c = "Q" -> "q" [] c = "R" -> "r" [] c = "S" -> "s" [] c = "T" -> "t"
    [] c = "U" -> "u" [] c = "V" -> "v" [] c = "W" -> "w" [] c = "X" -> "x"
    [] c = "Y" -> "y" [] c = "Z" -> "z"
    [] OTHER -> c

\* str.lower()
Lower(s) == [i \in 1..Len(s) |-> LowerChar(s[i])]

\* sub in s
Contains(s, sub) ==
  \E i \in 1..(Len(s) - Len(sub) + 1) : SubSeq(s, i, i + Len(sub) - 1) = sub

\* s.startswith(prefix)
StartsWith(s, prefix) ==
  Len(s) >= Len(prefix) /\ SubSeq(s, 1, Len(prefix)) = prefix

\* s.split("\n")
RECURSIVE SplitLines(_)
SplitLines(s) ==
  IF \A i \in 1..Len(s) : s[i] # "\n"
    THEN <<s>>
    ELSE LET k == CHOOSE i \in 1..Len(s) :
                    s[i] = "\n" /\ \A j \in 1..(i - 1) : s[j] # "\n"
         IN  <<SubSeq(s, 1, k - 1)>> \o SplitLines(SubSeq(s, k + 1, Len(s)))

\* re.findall(r'\d+', s)[0] when there is one: the first maximal run of digits
RECURSIVE TakeDigits(_)
TakeDigits(s) ==
  IF s # <<>> /\ Head(s) \in Digits
    THEN <<Head(s)>> \o TakeDigits(Tail(s))
    ELSE <<>>

RECURSIVE FirstNumber(_)
FirstNumber(s) ==
  IF s = <<>> THEN <<>>
  ELSE IF Head(s) \in Digits THEN TakeDigits(s)
  ELSE FirstNumber(Tail(s))

\* int(digits)
RECURSIVE IntOf(_)
IntOf(d) ==
  IF d = <<>> THEN 0
  ELSE 10 * IntOf(SubSeq(d, 1, Len(d) - 1)) + DigitValue(d[Len(d)])

Max(a, b) == IF a >= b THEN a ELSE b
Min(a, b) == IF a <= b THEN a ELSE b

(***************************************************************************)
(* A completion call either raises or returns a text                       *)
(***************************************************************************)
Raised == [ok |-> FALSE, text |-> <<>>]
Returned(t) == [ok |-> TRUE, text |-> t]

(***************************************************************************)
(* EmotionState, in declaration order                                      *)
(***************************************************************************)
EmotionState ==
  << "happy", "excited", "neutral", "confused", "stressed", "sad", "frustrated" >>

EmotionValue(e) ==
  CASE e = "happy" -> <<"h", "a", "p", "p", "y">>
    [] e = "excited" -> <<"e", "x", "c", "i", "t", "e", "d">>
    [] e = "neutral" -> <<"n", "e", "u", "t", "r", "a", "l">>
    [] e = "confused" -> <<"c", "o", "n", "f", "u", "s", "e", "d">>
    [] e = "stressed" -> <<"s", "t", "r", "e", "s", "s", "e", "d">>
    [] e = "sad" -> <<"s", "a", "d">>
    [] e = "frustrated" -> <<"f", "r", "u", "s", "t", "r", "a", "t", "e", "d">>

\* the for loop of _detect_emotion: the first member, in declaration order,
\* whose value occurs in the text; neutral when the loop ends without a return
RECURSIVE FirstEmotionIn(_, _)
FirstEmotionIn(emotion_text, i) ==
  IF i > Len(EmotionState) THEN "neutral"
  ELSE IF Contains(emotion_text, EmotionValue(EmotionState[i])) THEN EmotionState[i]
  ELSE FirstEmotionIn(emotion_text, i + 1)

\* variants of _detect_emotion: None when no label matches; the loop without
\* its early return; neutral when the call raises
RECURSIVE LastEmotionIn(_, _, _)
LastEmotionIn(emotion_text, i, found) ==
  IF i > Len(EmotionState) THEN found
  ELSE IF Contains(emotion_text, EmotionValue(EmotionState[i]))
    THEN LastEmotionIn(emotion_text, i + 1, EmotionState[i])
  ELSE LastEmotionIn(emotion_text, i + 1, found)

detect_emotion_none_on_no_match(outcome) ==
  IF ~outcome.ok THEN None
  ELSE LET emotion_text == Lower(Strip(outcome.text))
       IN  IF \A i \in 1..Len(EmotionState) :
                 ~Contains(emotion_text, EmotionValue(EmotionState[i]))
             THEN None
             ELSE FirstEmotionIn(emotion_text, 1)

detect_emotion_last_match(outcome) ==
  IF ~outcome.ok THEN None
  ELSE LastEmotionIn(Lower(Strip(outcome.text)), 1, "neutral")

detect_emotion_neutral_on_failure(outcome) ==
  IF ~outcome.ok THEN "neutral"
  ELSE FirstEmotionIn(Lower(Strip(outcome.text)), 1)

detect_emotion(outcome) ==
  IF ~outcome.ok THEN None
  ELSE FirstEmotionIn(Lower(Strip(outcome.text)), 1)

(***************************************************************************)
(* Understanding level                                                     *)
(***************************************************************************)
MarkerUpper == <<"N", "/", "A">>
MarkerLower == <<"n", "/", "a">>

\* variants of the clamp: one bound forgotten
ClampLowerOnly(level) == Max(1, level)
ClampUpperOnly(level) == Min(10, level)

MinLevel == 1
MaxLevel == 10

\* max(1, min(10, level))
Clamp(level) == Max(MinLevel, Min(MaxLevel, level))

extract_understanding_level(outcome) ==
  IF ~outcome.ok THEN NoLevel
  ELSE LET level_text == Strip(outcome.text)
           numbers == FirstNumber(level_text)
       IN  IF Contains(level_text, MarkerUpper) \/ Contains(level_text, MarkerLower)
             THEN NoLevel
           ELSE IF numbers # <<>> THEN SomeLevel(Clamp(IntOf(numbers)))
           ELSE NoLevel

(***************************************************************************)
(* Study suggestions                                                       *)
(***************************************************************************)
FallbackSuggestions ==
  << <<"R", "e", "v", "i", "e", "w", " ", "y", "o", "u", "r", " ", "r", "e",
       "c", "e", "n", "t", " ", "n", "o", "t", "e", "s", " ", "a", "n", "d",
       " ", "h", "i", "g", "h", "l", "i", "g", "h", "t", " ", "k", "e", "y",
       " ", "c", "o", "n", "c", "e", "p", "t", "s">>,
     <<"P", "r", "a", "c", "t", "i", "c", "e", " ", "a", "c", "t", "i", "v",
       "e", " ", "r", "e", "c", "a", "l", "l", " ", "b", "y", " ", "e", "x",
       "p", "l", "a", "i", "n", "i", "n", "g", " ", "t", "o", "p", "i", "c",
       "s", " ", "o", "u", "t", " ", "l", "o", "u", "d">>,
     <<"T", "a", "k", "e", " ", "r", "e", "g", "u", "l", "a", "r", " ", "b",
       "r", "e", "a", "k", "s", " ", "d", "u", "r", "i", "n", "g", " ", "s",
       "t", "u", "d", "y", " ", "s", "e", "s", "s", "i", "o", "n", "s">>,
     <<"C", "r", "e", "a", "t", "e", " ", "v", "i", "s", "u", "a", "l", " ",
       "s", "u", "m", "m", "a", "r", "i", "e", "s", " ", "o", "r", " ", "m",
       "i", "n", "d", " ", "m", "a", "p", "s", " ", "f", "o", "r", " ", "c",
       "o", "m", "p", "l", "e", "x", " ", "t", "o", "p", "i", "c", "s">> >>

MarkerChars == {"-", "bullet", " ", "."} \cup Digits

IsMarked(line) ==
  /\ line # <<>>
  /\ \/ StartsWith(line, <<"-">>)
     \/ StartsWith(line, <<"bullet">>)
     \/ StartsWith(line, <<"1", ".">>)

RECURSIVE ParseSuggestionLines(_)
ParseSuggestionLines(lines) ==
  IF lines = <<>> THEN <<>>
  ELSE LET line == Strip(Head(lines))
           suggestion == Strip(LStripSet(line, MarkerChars))
           rest == ParseSuggestionLines(Tail(lines))
       IN  IF IsMarked(line) /\ suggestion # <<>>
             THEN <<suggestion>> \o rest
             ELSE rest

FirstN(s, n) == SubSeq(s, 1, Min(n, Len(s)))

\* variant: the fallback list also when nothing was parsed
generate_study_suggestions_fallback_on_empty(outcome) ==
  IF ~outcome.ok THEN FallbackSuggestions
  ELSE LET parsed == FirstN(ParseSuggestionLines(SplitLines(outcome.text)), 5)
       IN  IF parsed = <<>> THEN FallbackSuggestions ELSE parsed

\* variant: no suggestions when the call fails
generate_study_suggestions_empty_on_failure(outcome) ==
  IF ~outcome.ok THEN <<>>
  ELSE FirstN(ParseSuggestionLines(SplitLines(outcome.text)), 5)

generate_study_suggestions(outcome) ==
  IF ~outcome.ok THEN FallbackSuggestions
  ELSE FirstN(ParseSuggestionLines(SplitLines(outcome.text)), 5)

(***************************************************************************)
(* Academic progress store                                                 *)
(***************************************************************************)
\* datetime.utcnow() of the query, in days, and its days=30 default
Today == 100
ProgressDays == 30

AcademicProgress(user_id, subject, topic, understanding_level, study_date) ==
  [user_id |-> user_id, subject |-> subject, topic |-> topic,
   understanding_level |-> understanding_level, study_date |-> study_date]

\* the newest first: order_by('study_date', direction=DESCENDING)
RECURSIVE NewestFirst(_)
NewestFirst(docs) ==
  IF docs = {} THEN <<>>
  ELSE LET newest == CHOOSE d \in docs : \A e \in docs : e.study_date <= d.study_date
       IN  <<newest>> \o NewestFirst(docs \ {newest})

\* get_user_progress(user_id): the user's entries of the last 30 days
get_user_progress(docs, user_id) ==
  NewestFirst({d \in docs : d.user_id = user_id /\
                             d.study_date >= Today - ProgressDays})

(***************************************************************************)
(* Prompt composition                                                      *)
(***************************************************************************)
\* SYSTEM_PROMPTS: each template is named by its first line
SYSTEM_PROMPTS ==
  [k \in {"default", "study_session", "check_in"} |->
     CASE k = "default" -> "You are an empathetic AI tutor and friend for students."
       [] k = "study_session" -> "You are now in STUDY SESSION mode!"
       [] k = "check_in" -> "Time for a friendly check-in!"]

\* SYSTEM_PROMPTS.get(context_type, SYSTEM_PROMPTS["default"])
base_prompt(context_type) ==
  IF context_type \in DOMAIN SYSTEM_PROMPTS
    THEN SYSTEM_PROMPTS[context_type]
    ELSE SYSTEM_PROMPTS["default"]

\* f"{n}" for the levels a progress entry can hold
Str(n) == <<"0", "1", "2", "3", "4", "5", "6", "7", "8", "9", "10">>[n + 1]

\* s[-n:]
LastN(s, n) == SubSeq(s, Max(1, Len(s) - n + 1), Len(s))

\* the lines under RECENT ACADEMIC PROGRESS: academic_context[-5:]
ProgressWindow == 5
recent_progress(academic_context) ==
  IF academic_context = <<>> THEN <<>>
  ELSE [i \in 1..Len(LastN(academic_context, ProgressWindow)) |->
          LET progress == LastN(academic_context, ProgressWindow)[i]
          IN  <<"- ", progress.subject, ": ", progress.topic, " (Understanding: ",
                Str(progress.understanding_level), "/10)">>]

\* _build_system_prompt: the template, the profile block, the progress lines
build_system_prompt(user_profile, context_type, academic_context) ==
  [base_prompt |-> base_prompt(context_type),
   user_context |-> user_profile,
   recent_progress |-> recent_progress(academic_context)]

\* variant: history[:10]
recent_messages_oldest(history) ==
  IF Len(history) > 10 THEN FirstN(history, 10) ELSE history

\* history[-10:] if len(history) > 10 else history
HistoryWindow == 10
recent_messages(history) ==
  IF Len(history) > HistoryWindow THEN LastN(history, HistoryWindow) ELSE history

\* the lines one message contributes
MessageLines(msg) ==
  LET role == IF msg.role = "user" THEN "Student" ELSE "AI Tutor"
  IN  << <<role, ": ", msg.content>> >> \o
      ( IF msg.emotion_detected # None
          THEN << <<"[Emotion detected: ", msg.emotion_detected, "]">> >>
          ELSE <<>> )

RECURSIVE FormatMessages(_)
FormatMessages(msgs) ==
  IF msgs = <<>> THEN <<>>
  ELSE MessageLines(Head(msgs)) \o FormatMessages(Tail(msgs))

\* _format_conversation_history, as a sequence of lines
format_conversation_history(history, current_message) ==
  << <<"CONVERSATION HISTORY:">> >> \o
  FormatMessages(recent_messages(history)) \o
  << <<>>, <<"Student", ": ", current_message>>, <<"AI Tutor:">> >>

(***************************************************************************)
(* The extraction steps on their own: a completion outcome is drawn, the   *)
(* step is applied to it.                                                  *)
(***************************************************************************)
SeqsUpTo(S, n) == UNION {[1..k -> S] : k \in 0..n}

RECURSIVE Flatten(_)
Flatten(ss) == IF ss = <<>> THEN <<>> ELSE Head(ss) \o Flatten(Tail(ss))

RECURSIVE JoinLines(_)
JoinLines(ls) ==
  IF ls = <<>> THEN <<>>
  ELSE IF Len(ls) = 1 THEN Head(ls)
  ELSE Head(ls) \o <<"\n">> \o JoinLines(Tail(ls))

LevelAlphabet == {"N", "n", "/", "A", "a", "-", "0", "1", "7", " "}

LevelTexts == SeqsUpTo(LevelAlphabet, MaxLevelLen)

EmotionFragments ==
  {EmotionValue(EmotionState[i]) : i \in 1..Len(EmotionState)} \cup
  { <<"S", "a", "d">>, <<"H", "A", "P", "P", "Y">>, <<"u", "n">>, <<"o", "k">>,
    <<"s", "a">>, <<"d">>, <<" ">> }

EmotionTexts == {Flatten(fs) : fs \in SeqsUpTo(EmotionFragments, MaxFrags)}

SuggestionLines ==
  { <<"-", " ", "a">>, <<"bullet", " ", "a">>, <<"1", ".", " ", "a">>,
    <<"2", ".", " ", "a">>, <<"a">>, <<>>, <<" ", "-", " ", "a", " ">>,
    <<"-", " ", "3", "a">>, <<"-">>, <<"1", "0", ".", " ", "a">>,
    <<"-", " ", "a", "-", "b">>, <<"a", " ", "-", " ", "b">> }

\* replies with more than five marked lines
LongSuggestionReplies ==
  { << <<"-", " ", "a">>, <<"-", " ", "b">>, <<"bullet", " ", "c">>,
       <<"-", " ", "d">>, <<"1", ".", " ", "e">>, <<"-", " ", "f">> >>,
    << <<"-", " ", "a">>, <<"x">>, <<"-", " ", "b">>, <<"-", " ", "c">>,
       <<"-">>, <<"-", " ", "d">>, <<"-", " ", "e">>, <<"-", " ", "f">>,
       <<"-", " ", "g">> >>,
    << <<"1", ".", " ", "a">>, <<"2", ".", " ", "b">>, <<"3", ".", " ", "c">>,
       <<"4", ".", " ", "d">>, <<"5", ".", " ", "e">>, <<"6", ".", " ", "f">> >> }

SuggestionTexts ==
  {JoinLines(ls) : ls \in SeqsUpTo(SuggestionLines, MaxLines) \cup LongSuggestionReplies}

ProbeSteps == {"emotion", "understanding", "suggestions"}

ProbeTexts(step) ==
  CASE step = "emotion" -> EmotionTexts
    [] step = "understanding" -> LevelTexts
    [] step = "suggestions" -> SuggestionTexts

NewProbe(step, outcome) ==
  [step |-> step, outcome |-> outcome, done |-> FALSE,
   emotion |-> None, level |-> NoLevel, suggestions |-> <<>>]

NoProbe == NewProbe("none", Raised)

ProbeDetectEmotion ==
  /\ probe.step = "emotion" /\ ~probe.done
  /\ probe' = [probe EXCEPT !.done = TRUE, !.emotion = detect_emotion(probe.outcome)]
  /\ UNCHANGED <<convs, active_sessions, calls, faults, now>>

ProbeExtractUnderstanding ==
  /\ probe.step = "understanding" /\ ~probe.done
  /\ probe' = [probe EXCEPT !.done = TRUE,
                            !.level = extract_understanding_level(probe.outcome)]
  /\ UNCHANGED <<convs, active_sessions, calls, faults, now>>

ProbeSuggestions ==
  /\ probe.step = "suggestions" /\ ~probe.done
  /\ probe' = [probe EXCEPT !.done = TRUE,
                            !.suggestions = generate_study_suggestions(probe.outcome)]
  /\ UNCHANGED <<convs, active_sessions, calls, faults, now>>

(***************************************************************************)
(* Conversation store and session cache                                    *)
(***************************************************************************)
Users == {"u1", "u2"}
ConvIdOrder == <<"c1", "c2">>
ConvIds == {ConvIdOrder[i] : i \in 1..Len(ConvIdOrder)}
CallOrder == <<"p1", "p2">>
Calls == {CallOrder[i] : i \in 1..Len(CallOrder)}
SessionTypes == {"study_session"}
UserMessages == {"What is a derivative?"}
ReplyTexts == {"A derivative is a rate of change.", ""}
SummaryTexts == {"You studied derivatives."}

\* what the completion service answers in a chat turn
EmotionReplies == { <<"o", "k">> }
LevelReplies == { <<"1", "5">> }
SuggestionReplies == { <<"-", " ", "a">>, <<"a">> }

FallbackResponse == "I'm having a bit of trouble connecting right now, but I'm still here for you!"
FailureResponseText == "I'm having trouble right now, but I'm still here to help! Could you try asking that again?"
FallbackSummary == "Study session completed successfully."
NotFoundResult == "Session ended."
EndFailureResult == "Session ended successfully."

\* Message: content is validated on construction (min_length=1, max_length=5000)
MinContentLen == 1
MaxContentLen == 5000
\* and so is understanding_level (ge=1, le=10) when it is not None
MessageValid(content, level) ==
  /\ Len(content) >= MinContentLen
  /\ Len(content) <= MaxContentLen
  /\ level # NoLevel => (level[1] >= MinLevel /\ level[1] <= MaxLevel)

Message(role, content, emotion, level) ==
  [role |-> role, content |-> content,
   emotion_detected |-> emotion, understanding_level |-> level]

\* Conversation as create_conversation builds it, at time utcnow
Conversation(user_id, session_type, utcnow) ==
  [user_id |-> user_id, session_type |-> session_type, messages |-> <<>>,
   created_at |-> utcnow, updated_at |-> utcnow,
   session_summary |-> None, is_active |-> TRUE]

ChatResponse(response, emotion, level, suggestions, session_id) ==
  [response |-> response, emotion_detected |-> emotion,
   understanding_level |-> level, suggestions |-> suggestions,
   session_id |-> session_id]

NoResponse == ChatResponse(None, None, NoLevel, <<>>, None)

\* the ChatResponse of the except branch of process_message
FailureResponse(conversation_id) ==
  ChatResponse(FailureResponseText, None, NoLevel, <<>>, conversation_id)

\* variant: the query has no user_id filter
get_conversation_history_any_user(user_id) == DOMAIN convs

\* get_conversation_history(user_id): the conversations of that user
\* order_by('updated_at', DESCENDING): d comes before c; documents with the
\* same updated_at are ordered by document id, in the same direction
StoredIdOrder ==
  <<"c1", "c2", "c3", "c4", "c5", "c6", "c7", "c8", "c9", "c10", "c11", "c12", "c13">>
StoredIds == {StoredIdOrder[i] : i \in 1..Len(StoredIdOrder)}
IdRank(c) == CHOOSE i \in 1..Len(StoredIdOrder) : StoredIdOrder[i] = c

Before(d, c) ==
  \/ convs[d].updated_at > convs[c].updated_at
  \/ convs[d].updated_at = convs[c].updated_at /\ IdRank(d) > IdRank(c)

\* limit: int = 10
HistoryLimit == 10

\* get_conversation_history(user_id): the conversations of that user, most
\* recently updated first, cut after the first 10
get_conversation_history(user_id) ==
  LET mine == {c \in DOMAIN convs : convs[c].user_id = user_id}
  IN  {c \in mine : Cardinality({d \in mine : Before(d, c)}) < HistoryLimit}

\* variant: the update replaces the array
add_message_overwrites(conversation_id, message, utcnow) ==
  [convs EXCEPT ![conversation_id].messages = <<message>>,
                ![conversation_id].updated_at = utcnow]

\* add_message: the document's messages gain the message (each Message has
\* its own timestamp, so ArrayUnion always adds it) and updated_at is set
add_message(conversation_id, message, utcnow) ==
  [convs EXCEPT ![conversation_id].messages = Append(@, message),
                ![conversation_id].updated_at = utcnow]

Put(f, k, v) == [x \in DOMAIN f \cup {k} |-> IF x = k THEN v ELSE f[x]]
\* variant: the whole cache is dropped
RemoveEvery(f, k) == <<>>
Remove(f, k) == [x \in DOMAIN f \ {k} |-> f[x]]

\* uuid4(): an id no conversation has
FreshConvId == ConvIdOrder[CHOOSE i \in 1..Len(ConvIdOrder) :
                  /\ ConvIdOrder[i] \notin DOMAIN convs
                  /\ \A j \in 1..(i - 1) : ConvIdOrder[j] \in DOMAIN convs]

(***************************************************************************)
(* A call of process_message or end_session in flight: its locals          *)
(***************************************************************************)
\* session_info: {} ("empty"), the cached dict itself ("cached"), or that dict
\* after end_session deleted it from the cache ("detached", its last count)
SessionInfo(kind, count) == [kind |-> kind, message_count |-> count]

IdleCall ==
  [pc |-> "idle", op |-> "none", conversation_id |-> None, user_id |-> None,
   user_message |-> None, history |-> <<>>, session_info |-> SessionInfo("empty", 0),
   session_type |-> None, ai_response |-> None, reply_ok |-> FALSE,
   reply_text |-> None,
   emotion |-> None, emotion_outcome |-> Raised,
   understanding_level |-> NoLevel, level_outcome |-> Raised,
   suggestions |-> <<>>, suggest_called |-> FALSE, suggest_outcome |-> Raised,
   turns_at_gate |-> 0, appended |-> 0, raised |-> FALSE,
   summary |-> None, response |-> NoResponse, result |-> None,
   completions |-> <<>>, message_count |-> 0]

AllIdle == \A p \in Calls : calls[p].pc = "idle"

\* the coroutine frame a new request gets
FreeCall == CallOrder[CHOOSE i \in 1..Len(CallOrder) :
               /\ calls[CallOrder[i]].pc = "idle"
               /\ \A j \in 1..(i - 1) : calls[CallOrder[j]].pc # "idle"]

TotalTurns ==
  LET RECURSIVE Sum(_)
      Sum(S) == IF S = {} THEN 0
                ELSE LET c == CHOOSE x \in S : TRUE
                     IN  Len(convs[c].messages) + Sum(S \ {c})
  IN  Sum(DOMAIN convs)

InFlight == Cardinality({p \in Calls : calls[p].op = "process" /\ calls[p].pc # "done"})

\* an external call (store or completion) may raise while faults remain
CanFail == faults < MaxFaults

\* variant: the exception leaves process_message
FailPropagates(p) ==
  [calls EXCEPT ![p].pc = "raised", ![p].raised = TRUE]

\* the except branch of process_message
Fail(p) ==
  [calls EXCEPT ![p].pc = "done", ![p].raised = TRUE,
                ![p].response = FailureResponse(calls[p].conversation_id)]

\* session_info.get("message_count", 0), read through the reference
MessageCount(info, conversation_id, sessions) ==
  CASE info.kind = "empty" -> 0
    [] info.kind = "cached" -> sessions[conversation_id].message_count
    [] info.kind = "detached" -> info.message_count

\* message_count > 0 and message_count % 6 == 0
SuggestionInterval == 6
CadenceGate(message_count) ==
  message_count > 0 /\ message_count % SuggestionInterval = 0

(***************************************************************************)
(* start_conversation                                                      *)
(***************************************************************************)
start_conversation(user_id, session_type) ==
  /\ DOMAIN convs # ConvIds
  /\ LET conversation_id == FreshConvId
     IN  /\ convs' = Put(convs, conversation_id, Conversation(user_id, session_type, now))
         /\ active_sessions' = Put(active_sessions, conversation_id,
                                   [user_id |-> user_id, session_type |-> session_type,
                                    message_count |-> 0])
  /\ UNCHANGED <<calls, faults, probe, now>>

(***************************************************************************)
(* process_message, one step per await                                     *)
(***************************************************************************)
BeginProcessMessage(conversation_id, user_message, user_id) ==
  /\ \E p \in Calls : calls[p].pc = "idle"
  /\ TotalTurns + 2 * InFlight + 2 <= MaxTurns
  /\ calls' = [calls EXCEPT ![FreeCall] =
                 [IdleCall EXCEPT !.pc = "get_history", !.op = "process",
                                  !.conversation_id = conversation_id,
                                  !.user_message = user_message,
                                  !.user_id = user_id]]
  /\ UNCHANGED <<convs, active_sessions, faults, probe, now>>

\* lines 63-70: the conversation is looked up among the user's conversations
PMGetHistoryRaises(p) ==
  /\ calls[p].pc = "get_history" /\ CanFail
  /\ calls' = Fail(p)
  /\ faults' = faults + 1
  /\ UNCHANGED <<convs, active_sessions, probe, now>>

PMGetHistory(p) ==
  /\ calls[p].pc = "get_history"
  /\ LET c == calls[p].conversation_id
     IN  IF c \in get_conversation_history(calls[p].user_id)
           THEN calls' = [calls EXCEPT ![p].pc = "get_progress",
                                       ![p].history = convs[c].messages]
           ELSE calls' = Fail(p)
  /\ UNCHANGED <<convs, active_sessions, faults, probe, now>>

\* lines 73-77: progress is fetched, then the cache is read
PMGetProgressRaises(p) ==
  /\ calls[p].pc = "get_progress" /\ CanFail
  /\ calls' = Fail(p)
  /\ faults' = faults + 1
  /\ UNCHANGED <<convs, active_sessions, probe, now>>

PMGetProgress(p) ==
  /\ calls[p].pc = "get_progress"
  /\ LET c == calls[p].conversation_id
         cached == c \in DOMAIN active_sessions
     IN  calls' = [calls EXCEPT
           ![p].pc = "reply",
           ![p].session_info = SessionInfo(IF cached THEN "cached" ELSE "empty", 0),
           ![p].session_type = IF cached THEN active_sessions[c].session_type
                                         ELSE "general"]
  /\ UNCHANGED <<convs, active_sessions, faults, probe, now>>

\* generate_response, lines 63-91: the reply call; when it raises the fallback
\* text is returned with no emotion and no level
\* variant: the reply call is issued again after it raised
PMReplyRetries(p) ==
  /\ calls[p].pc = "reply" /\ CanFail
  /\ calls' = [calls EXCEPT ![p].completions = Append(@, "reply")]
  /\ faults' = faults + 1
  /\ UNCHANGED <<convs, active_sessions, probe, now>>

\* variant: after the reply call raised, the fallback text is kept and the
\* emotion and understanding calls are still made
PMReplyRaisesThenExtracts(p) ==
  /\ calls[p].pc = "reply" /\ CanFail
  /\ calls' = [calls EXCEPT ![p].pc = "emotion", ![p].ai_response = FallbackResponse,
                            ![p].completions = Append(@, "reply")]
  /\ faults' = faults + 1
  /\ UNCHANGED <<convs, active_sessions, probe, now>>

PMReplyRaises(p) ==
  /\ calls[p].pc = "reply" /\ CanFail
  /\ calls' = [calls EXCEPT ![p].pc = "add_user", ![p].ai_response = FallbackResponse,
                            ![p].emotion = None, ![p].understanding_level = NoLevel,
                            ![p].completions = Append(@, "reply")]
  /\ faults' = faults + 1
  /\ UNCHANGED <<convs, active_sessions, probe, now>>

PMReply(p, text) ==
  /\ calls[p].pc = "reply"
  /\ text = "" => CanFail
  /\ calls' = [calls EXCEPT ![p].pc = "emotion", ![p].ai_response = text,
                            ![p].reply_ok = TRUE, ![p].reply_text = text,
                            ![p].completions = Append(@, "reply")]
  /\ faults' = IF text = "" THEN faults + 1 ELSE faults
  /\ UNCHANGED <<convs, active_sessions, probe, now>>

\* variant: _detect_emotion lets the exception through to generate_response,
\* whose except branch answers with the fallback text
PMEmotionPropagates(p, outcome) ==
  /\ calls[p].pc = "emotion"
  /\ ~outcome.ok => CanFail
  /\ calls' = IF outcome.ok
                THEN [calls EXCEPT ![p].pc = "understanding",
                                   ![p].emotion_outcome = outcome,
                                   ![p].emotion = detect_emotion(outcome),
                                   ![p].completions = Append(@, "emotion")]
                ELSE [calls EXCEPT ![p].pc = "add_user",
                                   ![p].emotion_outcome = outcome,
                                   ![p].completions = Append(@, "emotion"),
                                   ![p].ai_response = FallbackResponse,
                                   ![p].emotion = None,
                                   ![p].understanding_level = NoLevel]
  /\ faults' = IF outcome.ok THEN faults ELSE faults + 1
  /\ UNCHANGED <<convs, active_sessions, probe, now>>

PMEmotion(p, outcome) ==
  /\ calls[p].pc = "emotion"
  /\ ~outcome.ok => CanFail
  /\ calls' = [calls EXCEPT ![p].pc = "understanding",
                            ![p].emotion_outcome = outcome,
                            ![p].emotion = detect_emotion(outcome),
                            ![p].completions = Append(@, "emotion")]
  /\ faults' = IF outcome.ok THEN faults ELSE faults + 1
  /\ UNCHANGED <<convs, active_sessions, probe, now>>

PMUnderstanding(p, outcome) ==
  /\ calls[p].pc = "understanding"
  /\ ~outcome.ok => CanFail
  /\ calls' = [calls EXCEPT ![p].pc = "add_user",
                            ![p].level_outcome = outcome,
                            ![p].understanding_level = extract_understanding_level(outcome),
                            ![p].completions = Append(@, "understanding")]
  /\ faults' = IF outcome.ok THEN faults ELSE faults + 1
  /\ UNCHANGED <<convs, active_sessions, probe, now>>

\* lines 88-95: the student Message is built and appended
PMAddUserRaises(p) ==
  /\ calls[p].pc = "add_user" /\ CanFail
  /\ MessageValid(calls[p].user_message, calls[p].understanding_level)
  /\ calls' = Fail(p)
  /\ faults' = faults + 1
  /\ UNCHANGED <<convs, active_sessions, probe, now>>

PMAddUser(p) ==
  /\ calls[p].pc = "add_user"
  /\ LET c == calls[p].conversation_id
         user_msg == Message("user", calls[p].user_message, calls[p].emotion,
                             calls[p].understanding_level)
     IN  IF MessageValid(calls[p].user_message, calls[p].understanding_level)
           THEN /\ convs' = add_message(c, user_msg, now)
                /\ calls' = [calls EXCEPT ![p].pc = "add_ai", ![p].appended = @ + 1]
           ELSE /\ calls' = Fail(p)
                /\ UNCHANGED convs
  /\ UNCHANGED <<active_sessions, faults, probe, now>>

\* lines 97-114: the assistant Message is built and appended, the cached count
\* is advanced and the cadence gate is read
PMAddAiRaises(p) ==
  /\ calls[p].pc = "add_ai" /\ CanFail
  /\ MessageValid(calls[p].ai_response, NoLevel)
  /\ calls' = Fail(p)
  /\ faults' = faults + 1
  /\ UNCHANGED <<convs, active_sessions, probe, now>>

PMAddAi(p) ==
  /\ calls[p].pc = "add_ai"
  /\ LET c == calls[p].conversation_id
         ai_msg == Message("assistant", calls[p].ai_response, None, NoLevel)
         sessions == IF c \in DOMAIN active_sessions
                       THEN [active_sessions EXCEPT ![c].message_count = @ + 2]
                       ELSE active_sessions
         message_count == MessageCount(calls[p].session_info, c, sessions)
     IN  IF MessageValid(calls[p].ai_response, NoLevel)
           THEN /\ convs' = add_message(c, ai_msg, now)
                /\ active_sessions' = sessions
                /\ calls' = [calls EXCEPT
                      ![p].pc = IF CadenceGate(message_count) THEN "suggest"
                                                              ELSE "activity",
                      ![p].appended = @ + 1,
                      ![p].turns_at_gate = Len(convs[c].messages) + 1,
                      ![p].message_count = message_count]
           ELSE /\ calls' = Fail(p)
                /\ UNCHANGED <<convs, active_sessions, now>>
  /\ UNCHANGED <<faults, probe, now>>

\* lines 112-114
PMSuggest(p, outcome) ==
  /\ calls[p].pc = "suggest"
  /\ ~outcome.ok => CanFail
  /\ calls' = [calls EXCEPT ![p].pc = "activity", ![p].suggest_called = TRUE,
                            ![p].suggest_outcome = outcome,
                            ![p].suggestions = generate_study_suggestions(outcome),
                            ![p].completions = Append(@, "suggestions")]
  /\ faults' = IF outcome.ok THEN faults ELSE faults + 1
  /\ UNCHANGED <<convs, active_sessions, probe, now>>

\* lines 116-125
PMActivityRaises(p) ==
  /\ calls[p].pc = "activity" /\ CanFail
  /\ calls' = Fail(p)
  /\ faults' = faults + 1
  /\ UNCHANGED <<convs, active_sessions, probe, now>>

PMActivity(p) ==
  /\ calls[p].pc = "activity"
  /\ calls' = [calls EXCEPT ![p].pc = "done",
        ![p].response = ChatResponse(calls[p].ai_response, calls[p].emotion,
                                     calls[p].understanding_level,
                                     calls[p].suggestions, calls[p].conversation_id)]
  /\ UNCHANGED <<convs, active_sessions, faults, probe, now>>

\* the caller takes the returned value
Return(p) ==
  /\ calls[p].pc = "done"
  /\ calls' = [calls EXCEPT ![p] = IdleCall]
  /\ UNCHANGED <<convs, active_sessions, faults, probe, now>>

(***************************************************************************)
(* end_session, one step per await                                         *)
(***************************************************************************)
BeginEndSession(conversation_id, user_id) ==
  /\ \E p \in Calls : calls[p].pc = "idle"
  /\ calls' = [calls EXCEPT ![FreeCall] =
                 [IdleCall EXCEPT !.pc = "end_history", !.op = "end",
                                  !.conversation_id = conversation_id,
                                  !.user_id = user_id]]
  /\ UNCHANGED <<convs, active_sessions, faults, probe, now>>

\* the except branch of end_session
EndFail(p) ==
  [calls EXCEPT ![p].pc = "done", ![p].raised = TRUE, ![p].result = EndFailureResult]

\* lines 138-145
ESGetHistoryRaises(p) ==
  /\ calls[p].pc = "end_history" /\ CanFail
  /\ calls' = EndFail(p)
  /\ faults' = faults + 1
  /\ UNCHANGED <<convs, active_sessions, probe, now>>

ESGetHistory(p) ==
  /\ calls[p].pc = "end_history"
  /\ LET c == calls[p].conversation_id
     IN  IF c \in get_conversation_history(calls[p].user_id)
           THEN calls' = [calls EXCEPT ![p].pc = "summary",
                                       ![p].history = convs[c].messages]
           ELSE calls' = [calls EXCEPT ![p].pc = "done", ![p].result = NotFoundResult]
  /\ UNCHANGED <<convs, active_sessions, faults, probe, now>>

\* generate_session_summary, lines 278-283
generate_session_summary(ok, text) == IF ok THEN text ELSE FallbackSummary

ESSummary(p, ok, text) ==
  /\ calls[p].pc = "summary"
  /\ ~ok => CanFail
  /\ calls' = [calls EXCEPT ![p].pc = "end_update",
                            ![p].summary = generate_session_summary(ok, text)]
  /\ faults' = IF ok THEN faults ELSE faults + 1
  /\ UNCHANGED <<convs, active_sessions, probe, now>>

\* lines 152-164
ESUpdateRaises(p) ==
  /\ calls[p].pc = "end_update" /\ CanFail
  /\ calls' = EndFail(p)
  /\ faults' = faults + 1
  /\ UNCHANGED <<convs, active_sessions, probe, now>>

\* a call that still holds the cached dict keeps it when the key is deleted
Detach(cs, conversation_id) ==
  [q \in Calls |->
     IF /\ cs[q].conversation_id = conversation_id
        /\ cs[q].session_info.kind = "cached"
        /\ conversation_id \in DOMAIN active_sessions
       THEN [cs[q] EXCEPT !.session_info =
               SessionInfo("detached", active_sessions[conversation_id].message_count)]
       ELSE cs[q]]

\* variant: the update writes the summary and leaves is_active as it is
ESUpdateSummaryOnly(p) ==
  /\ calls[p].pc = "end_update"
  /\ LET c == calls[p].conversation_id
     IN  /\ convs' = [convs EXCEPT ![c].session_summary = calls[p].summary,
                                   ![c].updated_at = now]
         /\ active_sessions' = IF c \in DOMAIN active_sessions
                                 THEN Remove(active_sessions, c)
                                 ELSE active_sessions
         /\ calls' = Detach([calls EXCEPT ![p].pc = "done",
                                          ![p].result = calls[p].summary], c)
  /\ UNCHANGED <<faults, probe, now>>

ESUpdate(p) ==
  /\ calls[p].pc = "end_update"
  /\ LET c == calls[p].conversation_id
     IN  /\ convs' = [convs EXCEPT ![c].session_summary = calls[p].summary,
                                   ![c].is_active = FALSE,
                                   ![c].updated_at = now]
         /\ active_sessions' = IF c \in DOMAIN active_sessions
                                 THEN Remove(active_sessions, c)
                                 ELSE active_sessions
         /\ calls' = Detach([calls EXCEPT ![p].pc = "done",
                                          ![p].result = calls[p].summary], c)
  /\ UNCHANGED <<faults, probe, now>>

(***************************************************************************)
(* Specifications                                                          *)
(***************************************************************************)
Init ==
  /\ convs = <<>>
  /\ active_sessions = <<>>
  /\ calls = [p \in Calls |-> IdleCall]
  /\ faults = 0
  /\ probe = NoProbe
  /\ now = 0

\* a step of the call in flight
Step(p) ==
  \/ PMGetHistoryRaises(p)
  \/ PMGetHistory(p)
  \/ PMGetProgressRaises(p)
  \/ PMGetProgress(p)
  \/ PMReplyRaises(p)
  \/ \E text \in ReplyTexts : PMReply(p, text)
  \/ \E text \in EmotionReplies : PMEmotion(p, Returned(text))
  \/ PMEmotion(p, Raised)
  \/ \E text \in LevelReplies : PMUnderstanding(p, Returned(text))
  \/ PMUnderstanding(p, Raised)
  \/ PMAddUserRaises(p)
  \/ PMAddUser(p)
  \/ PMAddAiRaises(p)
  \/ PMAddAi(p)
  \/ \E text \in SuggestionReplies : PMSuggest(p, Returned(text))
  \/ PMSuggest(p, Raised)
  \/ PMActivityRaises(p)
  \/ PMActivity(p)
  \/ ESGetHistoryRaises(p)
  \/ ESGetHistory(p)
  \/ \E text \in SummaryTexts : ESSummary(p, TRUE, text)
  \/ ESSummary(p, FALSE, None)
  \/ ESUpdateRaises(p)
  \/ ESUpdate(p)
  \/ Return(p)

\* requests are handled one at a time
Next ==
  \/ \E u \in Users, st \in SessionTypes : AllIdle /\ start_conversation(u, st)
  \/ \E c \in ConvIds, m \in UserMessages, u \in Users :
       AllIdle /\ BeginProcessMessage(c, m, u)
  \/ \E c \in ConvIds, u \in Users : AllIdle /\ BeginEndSession(c, u)
  \/ \E p \in Calls : Step(p)

Spec == Init /\ [][Next]_vars

\* datetime.utcnow() moves on between the requests and between their steps
Tick ==
  /\ now < MaxClock
  /\ now' = now + 1
  /\ UNCHANGED <<convs, active_sessions, calls, faults, probe>>

\* the requests of one user, with the clock running
TimedUsers == {"u1"}

TimedNext ==
  \/ \E u \in TimedUsers, st \in SessionTypes : AllIdle /\ start_conversation(u, st)
  \/ \E c \in ConvIds, m \in UserMessages, u \in TimedUsers :
       AllIdle /\ BeginProcessMessage(c, m, u)
  \/ \E c \in ConvIds, u \in TimedUsers : AllIdle /\ BeginEndSession(c, u)
  \/ \E p \in Calls : Step(p)
  \/ Tick

TimedSpec == Init /\ [][TimedNext]_vars

(***************************************************************************)
(* A user with many conversations: the store holds up to MaxStored         *)
(* conversations of one user, created one after the other, and requests    *)
(* arrive later, none of whose external calls fails.                       *)
(***************************************************************************)
StoredSince(n, newest_first, i) == IF newest_first THEN n + 1 - i ELSE i

LookupInit ==
  /\ \E n \in 1..MaxStored, newest_first \in BOOLEAN, cached \in BOOLEAN :
       LET ids == {StoredIdOrder[i] : i \in 1..n}
       IN  /\ convs = [c \in ids |->
                         Conversation("u1", "study_session",
                                      StoredSince(n, newest_first, IdRank(c)))]
           /\ active_sessions =
                IF cached
                  THEN [c \in ids |-> [user_id |-> "u1",
                                       session_type |-> "study_session",
                                       message_count |-> 0]]
                  ELSE <<>>
  /\ calls = [p \in Calls |-> IdleCall]
  /\ faults = 0
  /\ probe = NoProbe
  /\ now = MaxStored + 1

\* the steps of a process_message call in which every external call returns
LookupStep(p) ==
  \/ PMGetHistory(p)
  \/ PMGetProgress(p)
  \/ \E text \in ReplyTexts \ {""} : PMReply(p, text)
  \/ \E text \in EmotionReplies : PMEmotion(p, Returned(text))
  \/ \E text \in LevelReplies : PMUnderstanding(p, Returned(text))
  \/ PMAddUser(p)
  \/ PMAddAi(p)
  \/ PMActivity(p)
  \/ Return(p)

LookupNext ==
  \/ \E c \in StoredIds, m \in UserMessages :
       /\ AllIdle
       /\ TotalTurns + 2 <= MaxLookupTurns
       /\ BeginProcessMessage(c, m, "u1")
  \/ \E p \in Calls : LookupStep(p)

LookupSpec == LookupInit /\ [][LookupNext]_vars

(***************************************************************************)
(* Requests of one user handled concurrently: the handlers are coroutines  *)
(* on one event loop, a second request is taken up while the first waits   *)
(* on a store or completion call.  No external call fails.                 *)
(***************************************************************************)
ConcStep(p) ==
  \/ LookupStep(p)
  \/ \E text \in SuggestionReplies : PMSuggest(p, Returned(text))
  \/ ESGetHistory(p)
  \/ \E text \in SummaryTexts : ESSummary(p, TRUE, text)
  \/ ESUpdate(p)

ConcNext ==
  \/ \E st \in SessionTypes : start_conversation("u1", st)
  \/ \E c \in ConvIds, m \in UserMessages : BeginProcessMessage(c, m, "u1")
  \/ \E c \in ConvIds : BeginEndSession(c, "u1")
  \/ \E p \in Calls : ConcStep(p)

ConcSpec == Init /\ [][ConcNext]_vars

\* the extraction steps applied to drawn completion outcomes
ParseInit ==
  /\ convs = <<>>
  /\ active_sessions = <<>>
  /\ calls = [p \in Calls |-> IdleCall]
  /\ faults = 0
  /\ now = 0
  /\ \E step \in ProbeSteps :
       probe \in {NewProbe(step, Raised)} \cup
                 {NewProbe(step, Returned(t)) : t \in ProbeTexts(step)}

ParseNext ==
  \/ ProbeDetectEmotion
  \/ ProbeExtractUnderstanding
  \/ ProbeSuggestions

ParseSpec == ParseInit /\ [][ParseNext]_vars

(***************************************************************************)
(* Prompt composition on its own: the stored progress entries, the mode    *)
(* and the turn history are drawn, the prompt is composed from them as     *)
(* process_message and generate_response do.                               *)
(***************************************************************************)
ContextTypes ==
  {"general", "study_session", "check_in", "exam_prep", "default", "help",
   "Study_Session"}

TopicNames ==
  <<"limits", "derivatives", "integrals", "series", "vectors", "matrices",
    "sets", "graphs", "proofs">>

\* one entry of u1 per day, from the day before the 30 days start; one of u2
ProgressDocs ==
  {AcademicProgress("u1", "Math", TopicNames[i + 1], 1 + (i % 10),
                    Today - ProgressDays - 1 + i) : i \in 0..MaxProgress} \cup
  {AcademicProgress("u2", "Physics", "optics", 7, Today)}

HistoryMessages ==
  {Message("user", "What is a derivative?", "confused", SomeLevel(4)),
   Message("assistant", "A derivative is a rate of change.", None, NoLevel)}

NewPrompt(user_id, context_type, docs, history) ==
  [step |-> "prompt", done |-> FALSE, user_id |-> user_id,
   context_type |-> context_type, docs |-> docs, history |-> history,
   current_message |-> "What is a derivative?",
   academic_progress |-> <<>>,
   system_prompt |-> build_system_prompt(None, "default", <<>>),
   conversation_context |-> <<>>]

\* chat_service.py lines 73-86 and generate_response lines 65-75
ComposePrompt ==
  /\ probe.step = "prompt" /\ ~probe.done
  /\ LET academic_progress == get_user_progress(probe.docs, probe.user_id)
     IN  probe' = [probe EXCEPT
           !.done = TRUE,
           !.academic_progress = academic_progress,
           !.system_prompt = build_system_prompt(probe.user_id, probe.context_type,
                                                 academic_progress),
           !.conversation_context =
              format_conversation_history(probe.history, probe.current_message)]
  /\ UNCHANGED <<convs, active_sessions, calls, faults, now>>

PromptInit ==
  /\ convs = <<>>
  /\ active_sessions = <<>>
  /\ calls = [p \in Calls |-> IdleCall]
  /\ faults = 0
  /\ now = 0
  /\ \/ \E context_type \in ContextTypes, docs \in SUBSET ProgressDocs :
          probe = NewPrompt("u1", context_type, docs, <<>>)
     \/ \E history \in SeqsUpTo(HistoryMessages, MaxHistory) :
          probe = NewPrompt("u1", "study_session", {}, history)

PromptNext == ComposePrompt

PromptSpec == PromptInit /\ [][PromptNext]_vars

(***************************************************************************)
(* Reading a reply by positions, for the properties below                  *)
(***************************************************************************)
DigitPositions(t) == {i \in 1..Len(t) : t[i] \in Digits}

FirstDigitAt(t) == CHOOSE i \in DigitPositions(t) : \A j \in DigitPositions(t) : i <= j

RunEnd(t, i) ==
  CHOOSE k \in i..Len(t) :
    /\ \A j \in i..k : t[j] \in Digits
    /\ k = Len(t) \/ t[k + 1] \notin Digits

RECURSIVE DecimalValue(_, _, _)
DecimalValue(t, i, k) ==
  IF k < i THEN 0 ELSE 10 * DecimalValue(t, i, k - 1) + DigitValue(t[k])

\* the first integer of the text, without and with a leading minus sign
UnsignedFirst(t) == DecimalValue(t, FirstDigitAt(t), RunEnd(t, FirstDigitAt(t)))

MinusBeforeFirst(t) == FirstDigitAt(t) > 1 /\ t[FirstDigitAt(t) - 1] = "-"

SignedFirst(t) == IF MinusBeforeFirst(t) THEN 0 - UnsignedFirst(t) ELSE UnsignedFirst(t)

Nearest(n) == IF n < 1 THEN 1 ELSE IF n > 10 THEN 10 ELSE n

\* positions of the marker N/A written in any letter case
MarkerPositions(t) ==
  {i \in 1..(Len(t) - 2) : t[i] \in {"N", "n"} /\ t[i + 1] = "/" /\ t[i + 2] \in {"A", "a"}}

\* label i of EmotionState occurs at position k, letter case ignored
LabelAt(t, i, k) ==
  LET label == EmotionValue(EmotionState[i])
  IN  /\ k + Len(label) - 1 <= Len(t)
      /\ \A j \in 1..Len(label) : LowerChar(t[k + j - 1]) = label[j]

LabelIn(t, i) == \E k \in 1..Len(t) : LabelAt(t, i, k)

NoLabelIn(t) == \A i \in 1..Len(EmotionState) : ~LabelIn(t, i)

ExpectedEmotion(t) ==
  IF NoLabelIn(t) THEN "neutral"
  ELSE EmotionState[CHOOSE i \in 1..Len(EmotionState) :
                      LabelIn(t, i) /\ \A j \in 1..(i - 1) : ~LabelIn(t, j)]

FirstAt(t, i) == CHOOSE k \in 1..Len(t) : LabelAt(t, i, k) /\ \A j \in 1..(k - 1) : ~LabelAt(t, i, j)

\* a line that starts, after trimming, with "-", the bullet or digits and "."
MarkedLine(line) ==
  LET l == Strip(line)
  IN  /\ l # <<>>
      /\ \/ l[1] \in {"-", "bullet"}
         \/ /\ l[1] \in Digits
            /\ RunEnd(l, 1) < Len(l)
            /\ l[RunEnd(l, 1) + 1] = "."

NoMarkedLine(t) ==
  LET lines == SplitLines(t) IN \A i \in 1..Len(lines) : ~MarkedLine(lines[i])

ProbeDone(step) == probe.step = step /\ probe.done

ProbeReturned(step) == ProbeDone(step) /\ probe.outcome.ok

\* the reply of a step does not have the shape the step expects
Mismatch(step, t) ==
  CASE step = "emotion" -> NoLabelIn(t)
    [] step = "understanding" -> MarkerPositions(t) = {} /\ DigitPositions(t) = {}
    [] step = "suggestions" -> NoMarkedLine(t)

ProcessDone(p) == calls[p].op = "process" /\ calls[p].pc = "done"

EndDone(p) == calls[p].op = "end" /\ calls[p].pc = "done"

\* the student Turn a call stored: the first of the turns it appended
StudentTurn(p) ==
  LET messages == convs[calls[p].conversation_id].messages
  IN  messages[Len(messages) - calls[p].appended + 1]

(***************************************************************************)
(* C1: for a conversation started with start_conversation and still in the *)
(* session cache, a process_message call that appended its two turns       *)
(* invokes suggestion generation if and only if the number of turns        *)
(* appended to the conversation so far is a nonzero multiple of 6; on      *)
(* every other call the ChatResponse carries an empty suggestion list.     *)
(***************************************************************************)
C1_SuggestionCadence ==
  \A p \in Calls :
    ( /\ ProcessDone(p)
      /\ calls[p].appended = 2
      /\ calls[p].conversation_id \in DOMAIN active_sessions )
    => LET n == calls[p].turns_at_gate
       IN  /\ calls[p].suggest_called <=> (n > 0 /\ n % 6 = 0)
           /\ ~(n > 0 /\ n % 6 = 0) => calls[p].response.suggestions = <<>>

(***************************************************************************)
(* C2 as stated: whenever the reply call succeeded and the emotion call    *)
(* and/or the understanding call failed, the ChatResponse's response is    *)
(* exactly the reply text and only the failed field has its default.       *)
(***************************************************************************)
ExtractionFailed(p) ==
  /\ ProcessDone(p)
  /\ calls[p].reply_ok
  /\ ~calls[p].emotion_outcome.ok \/ ~calls[p].level_outcome.ok

ReplyAndFieldsKept(p) ==
  /\ calls[p].response.response = calls[p].reply_text
  /\ calls[p].response.emotion_detected =
       IF calls[p].emotion_outcome.ok
         THEN ExpectedEmotion(calls[p].emotion_outcome.text)
         ELSE None
  /\ calls[p].response.understanding_level =
       IF calls[p].level_outcome.ok
         THEN SomeLevel(Nearest(UnsignedFirst(calls[p].level_outcome.text)))
         ELSE NoLevel

CanStep(p) ==
  CASE calls[p].pc = "get_history"   -> ENABLED PMGetHistory(p)
    [] calls[p].pc = "get_progress"  -> ENABLED PMGetProgress(p)
    [] calls[p].pc = "reply"         -> ENABLED (\E text \in ReplyTexts : PMReply(p, text))
    [] calls[p].pc = "emotion"       -> ENABLED (\E text \in EmotionReplies : PMEmotion(p, Returned(text)))
    [] calls[p].pc = "understanding" -> ENABLED (\E text \in LevelReplies : PMUnderstanding(p, Returned(text)))
    [] calls[p].pc = "add_user"      -> ENABLED PMAddUser(p)
    [] calls[p].pc = "add_ai"        -> ENABLED PMAddAi(p)
    [] calls[p].pc = "suggest"       -> ENABLED (\E text \in SuggestionReplies : PMSuggest(p, Returned(text)))
    [] calls[p].pc = "activity"      -> ENABLED PMActivity(p)
    [] calls[p].pc = "end_history"   -> ENABLED ESGetHistory(p)
    [] calls[p].pc = "summary"       -> ENABLED (\E text \in SummaryTexts : ESSummary(p, TRUE, text))
    [] calls[p].pc = "end_update"    -> ENABLED ESUpdate(p)
    [] calls[p].pc = "done"          -> ENABLED Return(p)
    [] OTHER                         -> FALSE

C3_NeverPropagates ==
  \A p \in Calls :
    /\ calls[p].pc # "raised"
    /\ calls[p].pc # "idle" => CanStep(p)
    /\ ProcessDone(p) =>
         /\ calls[p].response.response # None
         /\ Len(calls[p].response.response) >= 1
         /\ calls[p].response.session_id = calls[p].conversation_id
    /\ EndDone(p) => calls[p].result # None

C3_Witness ==
  \E p \in Calls :
    /\ ProcessDone(p)
    /\ calls[p].raised
    /\ calls[p].appended = 1
    /\ calls[p].response.response = FailureResponseText

(***************************************************************************)
(* C4: the understanding_level of every stored Turn, of every returned     *)
(* ChatResponse and of every call in flight is absent or an integer from 1 *)
(* to 10.                                                                  *)
(***************************************************************************)
LevelInRange(level) == level = NoLevel \/ (Len(level) = 1 /\ level[1] \in 1..10)

C4_LevelInRange ==
  /\ \A c \in DOMAIN convs : \A i \in 1..Len(convs[c].messages) :
       LevelInRange(convs[c].messages[i].understanding_level)
  /\ \A p \in Calls :
       /\ LevelInRange(calls[p].understanding_level)
       /\ LevelInRange(calls[p].response.understanding_level)

C4_Witness ==
  \E p \in Calls :
    /\ ProcessDone(p)
    /\ ~calls[p].raised
    /\ calls[p].level_outcome.ok
    /\ UnsignedFirst(calls[p].level_outcome.text) > 10
    /\ calls[p].response.understanding_level = SomeLevel(10)
    /\ StudentTurn(p).understanding_level = SomeLevel(10)

(***************************************************************************)
(* C5 as stated: for a reply with no N/A marker whose first integer is N,  *)
(* a minus sign counted, the level is 1 if N < 1, 10 if N > 10, else N.    *)
(***************************************************************************)
HasNumberNoMarker ==
  /\ ProbeReturned("understanding")
  /\ MarkerPositions(probe.outcome.text) = {}
  /\ DigitPositions(probe.outcome.text) # {}

C5_ClampSigned ==
  HasNumberNoMarker =>
    probe.level = SomeLevel(Nearest(SignedFirst(probe.outcome.text)))

(***************************************************************************)
(* C5 amended: for a reply with no N/A marker whose first run of decimal   *)
(* digits has the value N (a minus sign before it is not read, so N >= 0), *)
(* the level is 1 if N < 1, 10 if N > 10, else N.                          *)
(***************************************************************************)
C5_ClampUnsigned ==
  HasNumberNoMarker =>
    probe.level = SomeLevel(Nearest(UnsignedFirst(probe.outcome.text)))

C5_Witness ==
  /\ HasNumberNoMarker
  /\ MinusBeforeFirst(probe.outcome.text)
  /\ UnsignedFirst(probe.outcome.text) \in 1..10
  /\ probe.level = SomeLevel(UnsignedFirst(probe.outcome.text))

(***************************************************************************)
(* C6: for a reply that contains the marker N/A in any letter case before  *)
(* any digit, the level is absent.                                         *)
(***************************************************************************)
C6_MarkerAnyCase ==
  ( /\ ProbeReturned("understanding")
    /\ \E m \in MarkerPositions(probe.outcome.text) :
         \A d \in DigitPositions(probe.outcome.text) : m < d )
  => probe.level = NoLevel

(***************************************************************************)
(* C7: a successful emotion call yields a member of EmotionState, and      *)
(* neutral when the reply contains none of the seven labels.               *)
(***************************************************************************)
C7_NeutralOnNoMatch ==
  ProbeReturned("emotion") =>
    /\ \E i \in 1..Len(EmotionState) : probe.emotion = EmotionState[i]
    /\ NoLabelIn(probe.outcome.text) => probe.emotion = "neutral"

C7_Witness ==
  /\ ProbeReturned("emotion")
  /\ probe.outcome.text # <<>>
  /\ NoLabelIn(probe.outcome.text)
  /\ probe.emotion = "neutral"

(***************************************************************************)
(* C8: for a reply that contains one or more labels, the emotion is the    *)
(* contained label that comes first in declaration order, wherever the     *)
(* labels occur in the reply.                                              *)
(***************************************************************************)
C8_FirstDeclaredWins ==
  ( ProbeReturned("emotion") /\ ~NoLabelIn(probe.outcome.text) )
  => \E i \in 1..Len(EmotionState) :
       /\ LabelIn(probe.outcome.text, i)
       /\ \A j \in 1..(i - 1) : ~LabelIn(probe.outcome.text, j)
       /\ probe.emotion = EmotionState[i]

C8_Witness ==
  /\ ProbeReturned("emotion")
  /\ \E i, j \in 1..Len(EmotionState) :
       /\ i < j
       /\ LabelIn(probe.outcome.text, i)
       /\ LabelIn(probe.outcome.text, j)
       /\ FirstAt(probe.outcome.text, j) < FirstAt(probe.outcome.text, i)
       /\ \A k \in 1..(i - 1) : ~LabelIn(probe.outcome.text, k)
       /\ probe.emotion = EmotionState[i]

(***************************************************************************)
(* C9: when the emotion call raised after the reply call succeeded, the    *)
(* ChatResponse has a reply and no emotion, and so has the student Turn    *)
(* the call stored; when the emotion call returned a reply with no label,  *)
(* the emotion is neutral, not absent.                                     *)
(***************************************************************************)
C9_EmotionAbsentOnRaise ==
  \A p \in Calls :
    ( ProcessDone(p) /\ calls[p].reply_ok )
    => /\ ~calls[p].emotion_outcome.ok =>
            /\ calls[p].response.response # None
            /\ calls[p].response.emotion_detected = None
            /\ calls[p].appended >= 1 => StudentTurn(p).emotion_detected = None
       /\ ( calls[p].emotion_outcome.ok /\ NoLabelIn(calls[p].emotion_outcome.text) ) =>
            /\ calls[p].appended >= 1 => StudentTurn(p).emotion_detected = "neutral"
            /\ ~calls[p].raised => calls[p].response.emotion_detected = "neutral"

C9_Witness ==
  \E p \in Calls :
    /\ ProcessDone(p)
    /\ calls[p].reply_ok
    /\ ~calls[p].emotion_outcome.ok
    /\ ~calls[p].raised
    /\ calls[p].appended = 2
    /\ calls[p].response.response = calls[p].reply_text
    /\ calls[p].response.emotion_detected = None
    /\ StudentTurn(p).emotion_detected = None

(***************************************************************************)
(* C10 as stated: for each extraction step, a reply that was returned but  *)
(* does not have the expected shape yields the value of a failed call      *)
(* (for suggestions, the fixed 4-item fallback list).                      *)
(***************************************************************************)
FailureValue(step) ==
  CASE step = "emotion" -> probe.emotion = None
    [] step = "understanding" -> probe.level = NoLevel
    [] step = "suggestions" -> probe.suggestions = FallbackSuggestions

NumberMarked(l) ==
  /\ l # <<>>
  /\ l[1] \in Digits
  /\ RunEnd(l, 1) < Len(l)
  /\ l[RunEnd(l, 1) + 1] = "."

\* the text of a marked line after its list marker
AfterMarker(l) ==
  IF NumberMarked(l) THEN SubSeq(l, RunEnd(l, 1) + 2, Len(l))
  ELSE SubSeq(l, 2, Len(l))

CodeText(l) == Strip(LStripSet(l, MarkerChars))

MarkerOnlyText(l) == Strip(AfterMarker(l))

\* the lines with a marker of any number, empty results dropped
RECURSIVE AnyNumberLines(_)
AnyNumberLines(lines) ==
  IF lines = <<>> THEN <<>>
  ELSE LET l == Strip(Head(lines))
           rest == AnyNumberLines(Tail(lines))
       IN  IF MarkedLine(l) /\ CodeText(l) # <<>> THEN <<CodeText(l)>> \o rest ELSE rest

\* the kept lines, each without its marker only, empty results dropped
RECURSIVE MarkerOnlyLines(_)
MarkerOnlyLines(lines) ==
  IF lines = <<>> THEN <<>>
  ELSE LET l == Strip(Head(lines))
           rest == MarkerOnlyLines(Tail(lines))
       IN  IF IsMarked(l) /\ MarkerOnlyText(l) # <<>>
             THEN <<MarkerOnlyText(l)>> \o rest
             ELSE rest

(***************************************************************************)
(* C11 as stated: the parsed list is made of the lines that start, after   *)
(* trimming, with "-", with the bullet or with a numeric marker of any     *)
(* number, in reply order, empty results dropped, cut to the first 5.      *)
(***************************************************************************)
C11_AnyNumberMarker ==
  ProbeReturned("suggestions") =>
    probe.suggestions =
      FirstN(AnyNumberLines(SplitLines(probe.outcome.text)), 5)

(***************************************************************************)
(* C12 as stated: each parsed suggestion is its source line without the    *)
(* leading list marker and the surrounding whitespace, every character     *)
(* after the marker kept.                                                  *)
(***************************************************************************)
C12_TextAfterMarkerKept ==
  ProbeReturned("suggestions") =>
    probe.suggestions =
      FirstN(MarkerOnlyLines(SplitLines(probe.outcome.text)), 5)

(***************************************************************************)
(* C13 as stated: when the suggestions call fails on a turn on which the   *)
(* cadence gate fired, the ChatResponse carries the fixed 4-item fallback  *)
(* list and the reply, emotion and level computed before the gate.         *)
(***************************************************************************)
SuggestionsFailed(p) ==
  ProcessDone(p) /\ calls[p].suggest_called /\ ~calls[p].suggest_outcome.ok

FallbackListCarried(p) ==
  /\ calls[p].response.suggestions = FallbackSuggestions
  /\ calls[p].response.response = calls[p].ai_response
  /\ calls[p].response.emotion_detected = calls[p].emotion
  /\ calls[p].response.understanding_level = calls[p].understanding_level
  /\ calls[p].response.session_id = calls[p].conversation_id

PromptDone == probe.step = "prompt" /\ probe.done

\* the lines between the heading and the closing "Student: ... AI Tutor:"
HistoryBody(conversation_context) ==
  SubSeq(conversation_context, 2, Len(conversation_context) - 3)

IsTurnLine(l) == l[1] \in {"Student", "AI Tutor"}

RenderedTurns(conversation_context) ==
  SelectSeq(HistoryBody(conversation_context), IsTurnLine)

TurnLine(msg) ==
  <<IF msg.role = "user" THEN "Student" ELSE "AI Tutor", ": ", msg.content>>

\* the last min(L, 10) turns of the history, by position
LastTurnsOf(history) ==
  LET n == Min(Len(history), 10)
  IN  [i \in 1..n |-> TurnLine(history[Len(history) - n + i])]

(***************************************************************************)
(* C14: the turns rendered into the prompt are the last min(L, 10) turns   *)
(* of the history in their order, windowing the window again gives the     *)
(* same window and the same rendering, and composing the prompt leaves the *)
(* history it was given as it was.                                         *)
(***************************************************************************)
LastTenRendered ==
  PromptDone =>
    /\ RenderedTurns(probe.conversation_context) = LastTurnsOf(probe.history)
    /\ recent_messages(recent_messages(probe.history)) = recent_messages(probe.history)
    /\ format_conversation_history(recent_messages(probe.history),
                                   probe.current_message) = probe.conversation_context

HistoryKept == probe.step = "prompt" => probe'.history = probe.history

C14_LastTenInOrder == []LastTenRendered /\ [][HistoryKept]_vars

C14_Witness ==
  /\ PromptDone
  /\ Len(probe.history) > 10
  /\ probe.history[1] # probe.history[2]
  /\ Len(RenderedTurns(probe.conversation_context)) = 10

(***************************************************************************)
(* C15 as stated: each of the modes general, study_session, check_in and   *)
(* exam_prep selects a template of its own, and every other mode string    *)
(* selects the template of general.                                        *)
(***************************************************************************)
KnownModes == {"general", "study_session", "check_in", "exam_prep"}

C15_OwnTemplatePerMode ==
  PromptDone =>
    LET mode == probe.context_type
        template == probe.system_prompt.base_prompt
    IN  /\ mode \in KnownModes =>
             \A other \in KnownModes \ {mode} : template # base_prompt(other)
        /\ mode \notin KnownModes => template = base_prompt("general")

(***************************************************************************)
(* C16 as stated: the progress lines of the prompt are those of the at     *)
(* most 5 entries with the latest study dates among the entries retrieved  *)
(* for the user, one line per entry.                                       *)
(***************************************************************************)
Retrieved == {probe.academic_progress[i] : i \in 1..Len(probe.academic_progress)}

MostRecent(k) ==
  {f \in Retrieved : Cardinality({g \in Retrieved : g.study_date > f.study_date}) < k}

ProgressLine(f) ==
  <<"- ", f.subject, ": ", f.topic, " (Understanding: ", Str(f.understanding_level),
    "/10)">>

C16_MostRecentFive ==
  PromptDone =>
    LET lines == probe.system_prompt.recent_progress
    IN  /\ {lines[i] : i \in 1..Len(lines)} = {ProgressLine(f) : f \in MostRecent(5)}
        /\ Len(lines) = Cardinality(MostRecent(5))

(***************************************************************************)
(* C17 as stated: the session-summary call is issued at most once per      *)
(* conversation and a persisted summary is never overwritten.  Checked     *)
(* step by step: no summary call is issued for a conversation whose        *)
(* summary is already stored, and no step changes a stored summary.        *)
(***************************************************************************)
SummaryIssued(p) == calls[p].pc = "summary" /\ calls'[p].pc = "end_update"

SummaryOnce ==
  /\ \A p \in Calls :
       SummaryIssued(p) => convs[calls[p].conversation_id].session_summary = None
  /\ \A c \in DOMAIN convs :
       convs[c].session_summary # None =>
         convs'[c].session_summary = convs[c].session_summary

C17_SummaryOnce == [][SummaryOnce]_vars

(***************************************************************************)
(* C18 as stated: once a conversation has ended (summary stored, is_active *)
(* false) no step appends a turn to it and it does not become active       *)
(* again.                                                                  *)
(***************************************************************************)
EndedStaysAsIs ==
  \A c \in DOMAIN convs :
    ~convs[c].is_active =>
      /\ convs'[c].messages = convs[c].messages
      /\ ~convs'[c].is_active

C18_NoTurnAfterEnd == [][EndedStaysAsIs]_vars

(***************************************************************************)
(* C20: within one process_message call the completion calls are issued in *)
(* the order reply, emotion, understanding level, suggestions, each kind   *)
(* at most once; emotion and understanding only after a reply call that    *)
(* returned, suggestions only when the cadence gate fired; a call that     *)
(* failed is not issued again and its fallback value is the one in use.    *)
(***************************************************************************)
CompletionRank(kind) ==
  CASE kind = "reply" -> 1 [] kind = "emotion" -> 2
    [] kind = "understanding" -> 3 [] kind = "suggestions" -> 4

Issued(p, kind) ==
  \E i \in 1..Len(calls[p].completions) : calls[p].completions[i] = kind

C20_CompletionOrder ==
  \A p \in Calls :
    calls[p].op = "process" =>
      LET log == calls[p].completions
      IN  /\ \A i, j \in 1..Len(log) :
               i < j => CompletionRank(log[i]) < CompletionRank(log[j])
          /\ log # <<>> => log[1] = "reply"
          /\ Issued(p, "emotion") => calls[p].reply_ok
          /\ Issued(p, "understanding") => Issued(p, "emotion")
          /\ Issued(p, "suggestions") => CadenceGate(calls[p].message_count)
          /\ calls[p].pc \notin {"get_history", "get_progress", "reply", "emotion",
                                 "understanding"} /\ calls[p].reply_ok
               => Issued(p, "understanding")
          /\ Issued(p, "reply") /\ ~calls[p].reply_ok =>
               /\ calls[p].ai_response = FallbackResponse
               /\ calls[p].emotion = None
               /\ calls[p].understanding_level = NoLevel
               /\ calls[p].pc \notin {"reply", "emotion", "understanding"}
          /\ Issued(p, "emotion") /\ ~calls[p].emotion_outcome.ok =>
               calls[p].emotion = None /\ calls[p].pc # "emotion"
          /\ Issued(p, "understanding") /\ ~calls[p].level_outcome.ok =>
               calls[p].understanding_level = NoLevel /\ calls[p].pc # "understanding"
          /\ Issued(p, "suggestions") /\ ~calls[p].suggest_outcome.ok =>
               calls[p].suggestions = FallbackSuggestions /\ calls[p].pc # "suggest"

C20_Witness ==
  \E p \in Calls :
    /\ ProcessDone(p)
    /\ ~calls[p].raised
    /\ calls[p].completions = <<"reply", "emotion", "understanding", "suggestions">>
    /\ ~calls[p].emotion_outcome.ok
    /\ ~calls[p].suggest_outcome.ok

(***************************************************************************)
(* C19: turns are append-only.  In every step, every conversation is still *)
(* stored afterwards, its turn sequence before the step is a prefix of its *)
(* turn sequence after it, and a step that appends sets updated_at to a    *)
(* value not earlier than the one before (and not earlier than created_at, *)
(* which never changes).                                                   *)
(***************************************************************************)
IsPrefix(s, t) == Len(s) <= Len(t) /\ SubSeq(t, 1, Len(s)) = s

AppendOnly ==
  \A c \in DOMAIN convs :
    /\ c \in DOMAIN convs'
    /\ IsPrefix(convs[c].messages, convs'[c].messages)
    /\ convs'[c].created_at = convs[c].created_at
    /\ convs'[c].messages # convs[c].messages =>
         /\ Len(convs'[c].messages) = Len(convs[c].messages) + 1
         /\ convs'[c].updated_at >= convs[c].updated_at
         /\ convs'[c].updated_at >= convs'[c].created_at

C19_AppendOnly == [][AppendOnly]_vars

C19_Witness ==
  /\ DOMAIN convs = ConvIds
  /\ \E c \in DOMAIN convs :
       /\ Len(convs[c].messages) >= 4
       /\ convs[c].updated_at > convs[c].created_at
       /\ ~convs[c].is_active

(***************************************************************************)
(* C23 as stated: for every conversation in the session cache, the cached  *)
(* message_count is the number of turns stored for it.  Read between       *)
(* calls, when no process_message is part-way through its two appends.     *)
(***************************************************************************)
NoCallOn(c) ==
  \A p \in Calls : calls[p].pc # "idle" => calls[p].conversation_id # c

C23_CountMatchesTurns ==
  \A c \in DOMAIN active_sessions :
    NoCallOn(c) => active_sessions[c].message_count = Len(convs[c].messages)

(***************************************************************************)
(* C24 as stated: a process_message call that returns the failure          *)
(* ChatResponse has appended no turn, and the cached message_count is the  *)
(* number of turns that were stored before the call.                       *)
(***************************************************************************)
ReturnedFailure(p) ==
  ProcessDone(p) /\ calls[p].response = FailureResponse(calls[p].conversation_id)

C24_NothingStoredOnFailure ==
  \A p \in Calls : ReturnedFailure(p) => calls[p].appended = 0

(***************************************************************************)
(* C25 as stated: when the reply call fails, no emotion or understanding   *)
(* call is issued, emotion and level are absent, and the fallback text is  *)
(* returned and stored as the assistant turn of the call.                  *)
(***************************************************************************)
ReplyFailed(p) ==
  calls[p].op = "process" /\ Issued(p, "reply") /\ ~calls[p].reply_ok

FallbackTurn == Message("assistant", FallbackResponse, None, NoLevel)

NoExtraction(p) ==
  /\ ~Issued(p, "emotion") /\ ~Issued(p, "understanding")
  /\ calls[p].emotion = None /\ calls[p].understanding_level = NoLevel
  /\ calls[p].ai_response = FallbackResponse

FallbackReturnedAndStored(p) ==
  LET messages == convs[calls[p].conversation_id].messages
  IN  /\ calls[p].response.response = FallbackResponse
      /\ calls[p].response.emotion_detected = None
      /\ calls[p].response.understanding_level = NoLevel
      /\ calls[p].appended = 2
      /\ messages[Len(messages)] = FallbackTurn
      /\ messages[Len(messages) - 1].role = "user"
      /\ messages[Len(messages) - 1].emotion_detected = None
      /\ messages[Len(messages) - 1].understanding_level = NoLevel

FallbackUnlessLaterRaise ==
  \A p \in Calls :
    ReplyFailed(p) =>
      /\ NoExtraction(p)
      /\ ProcessDone(p) /\ ~calls[p].raised => FallbackReturnedAndStored(p)
      /\ ProcessDone(p) /\ calls[p].raised =>
           calls[p].response = FailureResponse(calls[p].conversation_id)

\* the append of the fallback turn is counted
FallbackCounted ==
  \A p \in Calls :
    ( /\ ReplyFailed(p)
      /\ calls[p].pc = "add_ai"
      /\ calls'[p].appended = 2 )
    => LET c == calls[p].conversation_id
       IN  /\ convs'[c].messages = Append(convs[c].messages, FallbackTurn)
           /\ c \in DOMAIN active_sessions =>
                active_sessions'[c].message_count =
                  active_sessions[c].message_count + 2

\* a prompt composed later renders the stored fallback turns of its window
FallbackInLaterPrompts ==
  \A q \in Calls :
    (calls[q].pc = "get_history" /\ calls'[q].pc = "get_progress") =>
      LET stored == convs[calls[q].conversation_id].messages
          context == format_conversation_history(calls'[q].history,
                                                 calls'[q].user_message)
          lines == RenderedTurns(context)
      IN  \A i \in 1..Len(stored) :
            (stored[i] = FallbackTurn /\ i > Len(stored) - HistoryWindow) =>
              \E k \in 1..Len(lines) :
                /\ lines[k] = TurnLine(FallbackTurn)
                /\ Len(lines) - k = Len(stored) - i

ModeChosen(p) ==
  /\ calls[p].op = "process"
  /\ calls[p].pc \notin {"idle", "get_history", "get_progress"}
  /\ calls[p].session_type # None

C27_StoredModeUsed ==
  \A p \in Calls :
    ModeChosen(p) =>
      /\ calls[p].session_type = convs[calls[p].conversation_id].session_type
      /\ base_prompt(calls[p].session_type) =
           base_prompt(convs[calls[p].conversation_id].session_type)

(***************************************************************************)
(* C28 as stated: after every end_session call that returned, on every     *)
(* path, the conversation_id is not in the session cache.                  *)
(***************************************************************************)
C28_CacheEntryGone ==
  \A p \in Calls :
    EndDone(p) => calls[p].conversation_id \notin DOMAIN active_sessions

(***************************************************************************)
(* C29: a process_message or end_session call whose conversation belongs   *)
(* to another user issues no completion call, appends no turn and leaves   *)
(* the conversation and its cache entry as they were; it ends with the     *)
(* failure response, respectively the not-found text.                      *)
(***************************************************************************)
Foreign(p) ==
  /\ calls[p].op # "none"
  /\ calls[p].conversation_id \in DOMAIN convs
  /\ convs[calls[p].conversation_id].user_id # calls[p].user_id

ForeignStopsAtLookup ==
  \A p \in Calls :
    Foreign(p) =>
      /\ calls[p].completions = <<>>
      /\ calls[p].summary = None
      /\ calls[p].appended = 0
      /\ calls[p].pc \in {"get_history", "end_history", "done"}
      /\ ProcessDone(p) =>
           calls[p].response = FailureResponse(calls[p].conversation_id)
      /\ EndDone(p) => calls[p].result \in {NotFoundResult, EndFailureResult}

ForeignLeavesAsIs ==
  \A p \in Calls :
    (Foreign(p) /\ calls'[p] # calls[p]) =>
      /\ convs' = convs
      /\ active_sessions' = active_sessions

C29_OtherUsersConversation == []ForeignStopsAtLookup /\ [][ForeignLeavesAsIs]_vars

C29_Witness ==
  \E p \in Calls :
    /\ ProcessDone(p)
    /\ Foreign(p)
    /\ Len(convs[calls[p].conversation_id].messages) >= 2
    /\ convs[calls[p].conversation_id].is_active
    /\ calls[p].conversation_id \in DOMAIN active_sessions

(***************************************************************************)
(* C30: a conversation has a summary if and only if its active flag is     *)
(* false; a step changes the one only together with the other, and only    *)
(* the store update of end_session does.                                   *)
(***************************************************************************)
SummaryIffEnded ==
  \A c \in DOMAIN convs : convs[c].session_summary # None <=> ~convs[c].is_active

SummaryAndFlagTogether ==
  \A c \in DOMAIN convs :
    ( \/ convs'[c].session_summary # convs[c].session_summary
      \/ convs'[c].is_active # convs[c].is_active )
    => /\ convs'[c].session_summary # None
       /\ ~convs'[c].is_active
       /\ \E p \in Calls :
            /\ calls[p].op = "end" /\ calls[p].pc = "end_update"
            /\ calls[p].conversation_id = c
            /\ calls'[p].pc = "done"

C30_SummaryIffEnded == []SummaryIffEnded /\ [][SummaryAndFlagTogether]_vars

C30_Witness ==
  \E c, d \in DOMAIN convs :
    /\ convs[c].session_summary # None /\ ~convs[c].is_active
    /\ Len(convs[c].messages) >= 2
    /\ convs[d].session_summary = None /\ convs[d].is_active
    /\ Len(convs[d].messages) >= 2

(***************************************************************************)
(* C26 as stated: for every stored conversation of the calling user, when  *)
(* no completion or store call fails, process_message appends exactly two  *)
(* turns, the student turn with the detected emotion and level and then    *)
(* the assistant turn with neither, and returns the completion reply,      *)
(* however many other conversations the user has.                          *)
(***************************************************************************)
OwnConversation(p) ==
  /\ calls[p].conversation_id \in DOMAIN convs
  /\ convs[calls[p].conversation_id].user_id = calls[p].user_id

TwoTurnsAppended(p) ==
  LET messages == convs[calls[p].conversation_id].messages
      n == Len(messages)
  IN  /\ calls[p].appended = 2
      /\ n >= 2
      /\ messages[n - 1] = Message("user", calls[p].user_message,
                                   ExpectedEmotion(calls[p].emotion_outcome.text),
                                   SomeLevel(Nearest(UnsignedFirst(calls[p].level_outcome.text))))
      /\ messages[n] = Message("assistant", calls[p].reply_text, None, NoLevel)
      /\ calls[p].response.response = calls[p].reply_text

C26_TwoTurnsForEveryConversation ==
  \A p \in Calls :
    (ProcessDone(p) /\ OwnConversation(p) /\ faults = 0) => TwoTurnsAppended(p)

(***************************************************************************)
(* C21 as stated: when process_message calls on one conversation run       *)
(* concurrently, every stored student turn is immediately followed by an   *)
(* assistant turn as soon as a turn follows it, and the history a call     *)
(* composes its prompt from holds every turn stored before its own         *)
(* student turn.                                                           *)
(***************************************************************************)
TurnsPaired ==
  \A c \in DOMAIN convs :
    LET messages == convs[c].messages
    IN  \A i \in 1..(Len(messages) - 1) :
          messages[i].role = "user" => messages[i + 1].role = "assistant"

PromptSawEarlierTurns ==
  \A p \in Calls :
    (calls[p].pc = "add_user" /\ calls'[p].pc = "add_ai") =>
      calls[p].history = convs[calls[p].conversation_id].messages

C21_AppendsSerialized == []TurnsPaired /\ [][PromptSawEarlierTurns]_vars

(***************************************************************************)
(* C22: operations on different conversations are independent.  A step     *)
(* changes a stored conversation or its cache entry only if it is a step   *)
(* of a call on that conversation; the cached message_count of a           *)
(* conversation is twice the number of assistant turns stored for it, and  *)
(* the suggestions call of a call is issued on that count alone.           *)
(***************************************************************************)
CacheEntry(sessions, c) ==
  IF c \in DOMAIN sessions THEN <<sessions[c]>> ELSE <<>>

IsAssistant(msg) == msg.role = "assistant"

OwnStepsOnly ==
  \A d \in DOMAIN convs :
    ( \/ convs'[d] # convs[d]
      \/ CacheEntry(active_sessions', d) # CacheEntry(active_sessions, d) )
    => \E p \in Calls :
         /\ calls[p].conversation_id = d
         /\ calls'[p].pc # calls[p].pc

OwnCadence ==
  /\ \A c \in DOMAIN active_sessions :
       active_sessions[c].message_count =
         2 * Len(SelectSeq(convs[c].messages, IsAssistant))
  /\ \A p \in Calls :
       (calls[p].op = "process" /\ calls[p].appended = 2) =>
         (Issued(p, "suggestions") \/ calls[p].pc = "suggest"
            <=> CadenceGate(calls[p].message_count))

C22_ConversationsIndependent == []OwnCadence /\ [][OwnStepsOnly]_vars

C22_Witness ==
  \E p, q \in Calls :
    /\ DOMAIN convs = ConvIds
    /\ calls[p].conversation_id = "c1" /\ calls[p].op = "process"
    /\ calls[p].pc = "add_ai"
    /\ calls[q].conversation_id = "c2" /\ calls[q].op = "end"
    /\ calls[q].pc = "done"
    /\ Len(convs["c1"].messages) = 3
    /\ Len(convs["c2"].messages) = 2
    /\ ~convs["c2"].is_active
    /\ "c1" \in DOMAIN active_sessions

====
